---- MODULE Spec2Model ----
(***************************************************************************)
(* Rating aggregation of ExamPrepShare: the Rating and Resource            *)
(* collections, the POST /api/ratings, DELETE /api/ratings/:ratingId and   *)
(* GET /api/ratings/stats/:resourceId handlers of                          *)
(* backend/routes/ratings.js, the post hooks and updateResourceStars of    *)
(* backend/models/Rating.js, and the resource handlers (upload, view,      *)
(* update, soft delete) of backend/routes/resources.js.                    *)
(*                                                                         *)
(* Spec is the rating requests with uploads and soft deletes; SpecRace,    *)
(* SpecFail, SpecResourceOps and SpecRecompute are the same actions from   *)
(* a given state: two concurrent Submits, a store whose calls can reject,  *)
(* resource requests interleaved with rating requests, and                 *)
(* updateResourceStars and the statistics over any set of ratings.         *)
(*                                                                         *)
(* A handler is cut at its awaits: each step is one store operation        *)
(* together with the synchronous code that follows it, so that concurrent  *)
(* requests interleave exactly where Node's event loop lets them.          *)
(*                                                                         *)
(* Resource.stars is a Number with one decimal; it is held here in tenths  *)
(* of a star (47 stands for 4.7).                                          *)
(***************************************************************************)
EXTENDS Integers, FiniteSets, Sequences, TLC

\* ---- bounds of the model
NumUsers == 3
MaxResources == 2
NumWorkers == 2
MaxRequests == 3
MaxRaters == 4
MaxCalls == 2
MaxPage == 3
MaxLimit == 2
MaxCallsUnderWay == 2
MaxSends == 3

\* ---- program constants
MinStars == 1
MaxStars == 5
MaxReviewLength == 500

Users == 1..NumUsers
ResourceIds == 1..MaxResources
\* Every request creates at most one Rating, so these are the _ids in use.
RatingIds == 1..MaxRequests
Workers == 1..NumWorkers

\* review is undefined in a request body that has no such member
NoReview == -1

\* req.body of a POST /api/ratings: stars is a JSON number held in tenths,
\* review the length of the review once trimmed
Body(s, len) == [stars |-> s, review |-> len, starsType |-> "number"]

\* The same with stars sent as a JSON string, '3' for 3
StringBody(s, len) == [Body(s, len) EXCEPT !.starsType = "string"]

\* The bodies requests are sent with: stars 1 and 3, which are valid, 6, which
\* is out of range, and 2.5, which is no integer; no review, a review of the
\* greatest length allowed, and one a character longer; and stars '3'.
SubmitBodies ==
  {Body(10, NoReview), Body(30, MaxReviewLength), Body(60, NoReview),
   Body(25, NoReview), Body(30, MaxReviewLength + 1),
   Body(60, MaxReviewLength + 1), StringBody(30, NoReview)}

StarInputs == {b.stars : b \in SubmitBodies}

\* The users who upload resources; the others only rate.
Uploaders == {1}

\* The User collection: user 2 holds role 'admin', the others 'user'.
Role(u) == IF u = 2 THEN "admin" ELSE "user"

VARIABLES
  resources,     \* Resource collection: sequence of documents, _id = index
  ratings,       \* Rating collection: set of documents
  nextRatingId,  \* the next fresh Rating _id
  req,           \* per worker: the request it is handling and its locals
  response,      \* the last response sent to a rating request
  started,       \* the number of rating requests received so far
  client,        \* the browser: localStorage and the api calls under way
  now            \* the server's clock, in milliseconds, as last read

vars ==
  <<resources, ratings, nextRatingId, req, response, started, client, now>>

\* ---- documents

\* findOne/findById returning null
NoRating == [id |-> 0, stars |-> 0, review |-> 0]

\* new Resource({title, ..., uploadedBy}) with the schema defaults: stars 0,
\* totalRatings 0, downloadCount 0, isActive true
NewResource(u) ==
  [title |-> "title", uploadedBy |-> u, stars |-> 0, totalRatings |-> 0,
   downloadCount |-> 0, isActive |-> TRUE]

\* No document: what a handler that has read no resource holds
NoResource == NewResource(0)

\* new Rating({user, resource, stars, review: ''}) once saved: review is
\* held as its length, and createdAt is the time of the timestamps option,
\* read when save() is called
NewRating(id, u, r, s, at) ==
  [id |-> id, user |-> u, resource |-> r, stars |-> s, review |-> 0,
   createdAt |-> at]

\* ---- the browser
ApiCalls == 1..MaxCallsUnderWay

\* localStorage.getItem returning null
NoItem == 0

\* localStorage with no session, and after a login or a registration
\* (AuthContext stores token, refreshToken and user together)
LoggedOut == [token |-> NoItem, refreshToken |-> NoItem, user |-> NoItem]

LoggedIn == [token |-> 1, refreshToken |-> 1, user |-> 1]

\* Who calls the api: login and register of AuthContext, its checkAuth
\* (authAPI.getMe), or a component ("plain")
CallKinds == {"plain", "login", "register", "getMe"}

\* The config of an api call not yet made: no _retry member, no Authorization
\* header. History: status is the status of the last response, sends and
\* refreshes count the call's requests to the api and to /auth/refresh.
NewCall ==
  [pc |-> "new", kind |-> "plain", retry |-> FALSE, authorization |-> NoItem,
   status |-> 0, sends |-> 0, refreshes |-> 0]

NoClient == [localStorage |-> LoggedOut, calls |-> [i \in ApiCalls |-> NewCall]]

\* ---- requests

\* A request's locals: rating is what Rating.findOne returned, sum and count
\* are the stats of updateResourceStars (count 0: stats is empty), doc is the
\* Resource document a resource handler has read and modified in memory.
\* History: saved records that the request's rating.save() has written the
\* Rating collection.
Idle ==
  [op |-> "none", pc |-> "idle", userId |-> 0, resourceId |-> 0, stars |-> 0,
   ratingId |-> 0, rating |-> NoRating, sum |-> 0, count |-> 0,
   doc |-> NoResource, saved |-> FALSE, recomputed |-> FALSE,
   overlapped |-> FALSE, page |-> 0, limit |-> 0, found |-> <<>>,
   seen |-> {}, review |-> NoReview, starsType |-> "number",
   newId |-> 0, createdAt |-> 0]

\* No error caught
NoError == [name |-> "", pc |-> "idle", resourceId |-> 0]

\* res.status(code).json({message}) of the request q; recomputed records
\* whether updateResourceStars wrote the resource on its behalf, error what
\* the handler's catch logged.
Response(q, code, msg) ==
  [op |-> q.op, status |-> code, message |-> msg, recomputed |-> q.recomputed,
   error |-> NoError]

\* res.status(500).json({message}) in the catch of each handler
ErrorMessage(op) ==
  IF op = "delete" THEN "Server error while deleting rating"
  ELSE "Server error while adding rating"

\* catch (error): console.error(..., error), then the 500; the error is
\* recorded by its name, the step of the request q that threw it and the
\* resource the request is about
ErrorResponse(q, err) ==
  [Response(q, 500, ErrorMessage(q.op)) EXCEPT
     !.error = [name |-> err, pc |-> q.pc, resourceId |-> q.resourceId]]

NoResponse == Response(Idle, 0, "")

InFlight(q) == q.pc # "idle"

\* The slot a new request is handled in: the first free one.
FreeWorker(w) ==
  /\ ~InFlight(req[w])
  /\ \A v \in Workers : v < w => InFlight(req[v])

\* History kept with each request in flight: whether another request that
\* acts on the same resource has been in flight at the same time.
Mark(nr) ==
  [w \in Workers |->
     IF InFlight(nr[w])
     THEN [nr[w] EXCEPT !.overlapped =
             @ \/ \E v \in Workers \ {w} :
                    InFlight(nr[v]) /\ nr[v].resourceId = nr[w].resourceId]
     ELSE nr[w]]

Quiescent == \A w \in Workers : ~InFlight(req[w])

\* ---- Resource.findById
ResourceExists(r) == r \in 1..Len(resources)

\* The check without its isActive half
ResourceMissing(r) == ~ResourceExists(r)

\* if (!resource || !resource.isActive)
ResourceNotFound(r) == ~ResourceExists(r) \/ ~resources[r].isActive

\* The check left out
NeverSelfRating(r, u) == FALSE

\* if (resource.uploadedBy.toString() === req.userId)
IsSelfRating(r, u) == resources[r].uploadedBy = u

\* Every body passes the check
AnyStars(s) == TRUE

\* body('stars').isInt({ min: 1, max: 5 }), s in tenths
ValidStars(s) == s % 10 = 0 /\ (s \div 10) \in MinStars..MaxStars

\* body('review').optional().trim().isLength({ max: 500 })
ValidReview(len) == len = NoReview \/ len <= MaxReviewLength

\* errors.array() of validationResult(req), by the messages of the errors in
\* the order of the validators
ValidationErrors(s, len) ==
  (IF ValidStars(s) THEN <<>> ELSE <<"Stars must be between 1 and 5">>)
  \o (IF ValidReview(len) THEN <<>>
      ELSE <<"Review cannot exceed 500 characters">>)

\* ---- Rating queries
RatingsOf(r) == {rt \in ratings : rt.resource = r}

RatingsOfPair(u, r) == {rt \in ratings : rt.user = u /\ rt.resource = r}

\* Every rating of the user whose rating has the id
RatingsOfSameUser(id) ==
  {rt \in ratings : \E x \in ratings : x.id = id /\ x.user = rt.user}

RatingsById(id) == {rt \in ratings : rt.id = id}

\* The collection without its unique index
NoUniqueIndex(u, r) == FALSE

\* ratingSchema.index({ user: 1, resource: 1 }, { unique: true }): an insert
\* of a second document for the pair fails with E11000
DuplicateKey(u, r) == RatingsOfPair(u, r) # {}

RECURSIVE SumStars(_)
SumStars(S) ==
  IF S = {} THEN 0
  ELSE LET rt == CHOOSE x \in S : TRUE IN rt.stars + SumStars(S \ {rt})

\* The nearest integer, a half rounding down
RoundTenthsHalfDown(sum, count) == (20 * sum + count - 1) \div (2 * count)

\* Math.round(averageStars * 10), averageStars = sum / count: the nearest
\* integer to 10 * sum / count, a half rounding up
RoundTenths(sum, count) == (20 * sum + count) \div (2 * count)

\* What updateResourceStars writes for stats = [{averageStars, totalRatings}]
\* or for stats = []
StarsOfStats(sum, count) == IF count > 0 THEN RoundTenths(sum, count) ELSE 0

\* ---- post hooks: the query conditions of Rating.findByIdAndDelete(id) are
\* {_id: id}; the hook recomputes only if (this._conditions.resource)
DeleteConditions(id) == [_id |-> id]

\* A hook that recomputes whatever the conditions are
HookAlwaysRuns(conditions) == TRUE

HookRuns(conditions) == "resource" \in DOMAIN conditions

Init ==
  /\ resources = <<>>
  /\ ratings = {}
  /\ nextRatingId = 1
  /\ req = [w \in Workers |-> Idle]
  /\ response = NoResponse
  /\ started = 0
  /\ client = NoClient
  /\ now = 0

\* ---- POST /api/resources: a new document with the schema defaults
Upload(u) ==
  /\ Len(resources) < MaxResources
  /\ resources' = Append(resources, NewResource(u))
  /\ UNCHANGED <<ratings, nextRatingId, req, response, started>>
  /\ UNCHANGED <<client, now>>

\* A step of worker w that leaves its request q in flight
Continue(w, q) ==
  /\ req' = Mark([req EXCEPT ![w] = q])
  /\ UNCHANGED response

\* A step of worker w that ends its request with a response
Reply(w, code, msg) ==
  /\ req' = [req EXCEPT ![w] = Idle]
  /\ response' = Response(req[w], code, msg)

\* A step of worker w in which an awaited call rejects: the handler's catch
Throw(w, err) ==
  /\ req' = [req EXCEPT ![w] = Idle]
  /\ response' = ErrorResponse(req[w], err)

\* ---- The resource handlers that read a document, modify it in memory and
\* save it: GET /api/resources/:id (op "view"), PUT /api/resources/:id (op
\* "update") and DELETE /api/resources/:id (op "softDelete").

\* The path each handler modifies
ModifiedPath(op) ==
  CASE op = "view" -> "downloadCount"
    [] op = "update" -> "title"
    [] op = "softDelete" -> "isActive"

\* The document after the handler's assignments: resource.downloadCount += 1,
\* resource.title = title, resource.isActive = false
Modified(op, doc) ==
  CASE op = "view" -> [doc EXCEPT !.downloadCount = @ + 1]
    [] op = "update" -> [doc EXCEPT !.title = "new title"]
    [] op = "softDelete" -> [doc EXCEPT !.isActive = FALSE]

ResourceForbidden(op) ==
  IF op = "update" THEN "Not authorized to update this resource"
  ELSE "Not authorized to delete this resource"

ResourceSuccess(op) ==
  CASE op = "view" -> ""
    [] op = "update" -> "Resource updated successfully"
    [] op = "softDelete" -> "Resource deleted successfully"

\* save() writing the document held in memory over the stored one
WholeDocument(stored, doc, path) == doc

\* resource.save(): Mongoose sends a $set of the modified paths only
SavedDocument(stored, doc, path) == [stored EXCEPT ![path] = doc[path]]

\* if (resource.uploadedBy.toString() !== req.userId), of PUT and DELETE
NotUploader(op, u, doc) == op # "view" /\ doc.uploadedBy # u

\* No role is refused
EveryoneAdmin(u) == FALSE

\* if (user.role !== 'admin')
NotAdmin(u) == Role(u) # "admin"

\* Resource.findById, the read of the document, and what follows it: no
\* document is answered 404; for GET the query goes on to populate the
\* document found; PUT and DELETE read the requester's user unless the
\* requester is the uploader, who comes to the assignments to the document.
ResourceFindById(w, op, u, r) ==
  /\ FreeWorker(w)
  /\ started < MaxRequests
  /\ started' = started + 1
  /\ LET q == [Idle EXCEPT !.op = op, !.userId = u, !.resourceId = r]
     IN IF ~ResourceExists(r)
        THEN /\ response' = Response(q, 404, "Resource not found")
             /\ UNCHANGED req
        ELSE IF op = "view"
        THEN Continue(w, [q EXCEPT !.pc = "populateFound",
                                   !.doc = resources[r]])
        ELSE IF NotUploader(op, u, resources[r])
        THEN Continue(w, [q EXCEPT !.pc = "findUser", !.doc = resources[r]])
        ELSE Continue(w, [q EXCEPT !.pc = "saveResource",
                                   !.doc = Modified(op, resources[r])])
  /\ UNCHANGED <<resources, ratings, nextRatingId>>
  /\ UNCHANGED <<client, now>>

\* GET /:id: .populate('uploadedBy', 'name email'), the second read of the
\* awaited query; then the 404 of a document read inactive, or
\* resource.downloadCount += 1 on the document read
ViewPopulate(w) ==
  /\ req[w].op = "view" /\ req[w].pc = "populateFound"
  /\ IF ~req[w].doc.isActive
     THEN Reply(w, 404, "Resource not found")
     ELSE Continue(w, [req[w] EXCEPT !.pc = "saveResource",
                                     !.doc = Modified("view", @)])
  /\ UNCHANGED <<resources, ratings, nextRatingId, started>>
  /\ UNCHANGED <<client, now>>

\* const user = await User.findById(req.userId), the 403 of a user who is no
\* admin, and the assignments to the document read before
ResourceFindUser(w) ==
  /\ req[w].pc = "findUser"
  /\ IF NotAdmin(req[w].userId)
     THEN Reply(w, 403, ResourceForbidden(req[w].op))
     ELSE Continue(w, [req[w] EXCEPT !.pc = "saveResource",
                                     !.doc = Modified(req[w].op, @)])
  /\ UNCHANGED <<resources, ratings, nextRatingId, started>>
  /\ UNCHANGED <<client, now>>

\* await resource.save(); GET and DELETE answer next, PUT goes on to await
\* resource.populate
ResourceSave(w) ==
  /\ req[w].pc = "saveResource"
  /\ resources' = [resources EXCEPT ![req[w].resourceId] =
         SavedDocument(@, req[w].doc, ModifiedPath(req[w].op))]
  /\ IF req[w].op = "update"
     THEN Continue(w, [req[w] EXCEPT !.pc = "populateResource"])
     ELSE Reply(w, 200, ResourceSuccess(req[w].op))
  /\ UNCHANGED <<ratings, nextRatingId, started>>
  /\ UNCHANGED <<client, now>>

\* await resource.populate('uploadedBy', 'name email') of PUT, a read of the
\* uploader, then res.json
ResourcePopulate(w) ==
  /\ req[w].pc = "populateResource"
  /\ Reply(w, 200, ResourceSuccess(req[w].op))
  /\ UNCHANGED <<resources, ratings, nextRatingId, started>>
  /\ UNCHANGED <<client, now>>

\* ---- POST /api/ratings, up to the first read: validation, then
\* Resource.findById and the two checks on what it returns
SubmitFindResource(w, u, r, b) ==
  /\ FreeWorker(w)
  /\ started < MaxRequests
  /\ started' = started + 1
  /\ LET q == [Idle EXCEPT !.op = "submit", !.userId = u, !.resourceId = r,
                           !.stars = b.stars \div 10, !.review = b.review,
                           !.starsType = b.starsType]
         errors == ValidationErrors(b.stars, b.review)
     IN IF errors # <<>>
        THEN /\ response' = Response(q, 400, Head(errors))
             /\ UNCHANGED req
        ELSE IF ResourceNotFound(r)
        THEN /\ response' = Response(q, 404, "Resource not found")
             /\ UNCHANGED req
        ELSE IF IsSelfRating(r, u)
        THEN /\ response' = Response(q, 400, "Cannot rate your own resource")
             /\ UNCHANGED req
        ELSE Continue(w, [q EXCEPT !.pc = "findOne"])
  /\ UNCHANGED <<resources, ratings, nextRatingId>>
  /\ UNCHANGED <<client, now>>

\* let rating = await Rating.findOne({ user: req.userId, resource: resourceId })
\* and what follows it up to the await of save(): when nothing is found, new
\* Rating(...) gives the document its _id and save() its createdAt, the
\* clock's time; tick says whether the clock has moved on since it was last
\* read
SubmitFindOne(w, tick) ==
  /\ req[w].op = "submit" /\ req[w].pc = "findOne"
  /\ LET found == RatingsOfPair(req[w].userId, req[w].resourceId)
     IN IF found = {}
        THEN /\ now' = IF tick THEN now + 1 ELSE now
             /\ nextRatingId' = nextRatingId + 1
             /\ Continue(w, [req[w] EXCEPT !.rating = NoRating,
                                           !.newId = nextRatingId,
                                           !.createdAt = now',
                                           !.pc = "save"])
        ELSE LET rt == CHOOSE x \in found : TRUE
             IN /\ Continue(w, [req[w] EXCEPT
                      !.rating = [id |-> rt.id, stars |-> rt.stars,
                                  review |-> rt.review],
                      !.pc = "save"])
                /\ UNCHANGED <<nextRatingId, now>>
  /\ UNCHANGED <<resources, ratings, started, client>>

\* review || ''
ReviewOrEmpty(len) == IF len = NoReview THEN 0 ELSE len

\* rating.review = review, whatever the request holds
AlwaysAssignReview(doc, len) == [doc EXCEPT !.review = ReviewOrEmpty(len)]

\* if (review !== undefined) rating.review = review
AssignReview(doc, len) ==
  IF len # NoReview THEN [doc EXCEPT !.review = len] ELSE doc

\* rating.save() of the document found, after rating.stars = stars and the
\* assignment of review: the paths whose value was changed are $set; a
\* document that is gone makes save() throw DocumentNotFoundError (500)
SaveExisting(w) ==
  LET q == req[w]
      doc == AssignReview([q.rating EXCEPT !.stars = q.stars], q.review)
  IN IF RatingsById(q.rating.id) = {}
     THEN /\ Throw(w, "DocumentNotFoundError")
          /\ UNCHANGED ratings
     ELSE /\ ratings' = {IF rt.id = q.rating.id
                         THEN [rt EXCEPT
                                 !.stars = IF doc.stars # q.rating.stars
                                           THEN doc.stars ELSE @,
                                 !.review = IF doc.review # q.rating.review
                                            THEN doc.review ELSE @]
                         ELSE rt
                         : rt \in ratings}
          /\ Continue(w, [q EXCEPT !.pc = "aggregate",
                                   !.saved = doc # q.rating])

\* rating.save() of a new document: insertOne under the unique index
SaveNew(w) ==
  LET q == req[w]
  IN IF DuplicateKey(q.userId, q.resourceId)
     THEN /\ Throw(w, "E11000")
          /\ UNCHANGED ratings
     ELSE /\ ratings' = ratings \cup
               {[NewRating(q.newId, q.userId, q.resourceId, q.stars,
                           q.createdAt)
                   EXCEPT !.review = ReviewOrEmpty(q.review)]}
          /\ Continue(w, [q EXCEPT !.pc = "aggregate", !.saved = TRUE])

\* await rating.save(), post('save') hook not yet run
SubmitSave(w) ==
  /\ req[w].op = "submit" /\ req[w].pc = "save"
  /\ IF req[w].rating # NoRating THEN SaveExisting(w) ELSE SaveNew(w)
  /\ UNCHANGED <<resources, nextRatingId, started>>
  /\ UNCHANGED <<client, now>>

\* A running count instead of a new count of the ratings
AggregateIncremental(w) ==
  /\ req[w].pc = "aggregate"
  /\ LET S == RatingsOf(req[w].resourceId)
     IN Continue(w, [req[w] EXCEPT
                       !.sum = SumStars(S),
                       !.count = resources[req[w].resourceId].totalRatings + 1,
                       !.pc = "update"])
  /\ UNCHANGED <<resources, ratings, nextRatingId, started>>
  /\ UNCHANGED <<client, now>>

\* updateResourceStars, first await: the $match/$group aggregate
Aggregate(w) ==
  /\ req[w].pc = "aggregate"
  /\ LET S == RatingsOf(req[w].resourceId)
     IN Continue(w, [req[w] EXCEPT !.sum = SumStars(S),
                                   !.count = Cardinality(S),
                                   !.pc = "update"])
  /\ UNCHANGED <<resources, ratings, nextRatingId, started>>
  /\ UNCHANGED <<client, now>>

\* rating.stars !== stars: rating.stars is the Number the schema cast the
\* body's stars to, so the two differ exactly when the body's stars is not a
\* Number
StarsDiffer(q) == q.starsType # "number"

\* The message of res.json: of a Submit by the test rating.stars !== stars
\* made after rating.stars was set from stars; a direct call of
\* updateResourceStars returns no message.
SuccessMessage(q) ==
  IF q.op = "recompute" THEN ""
  ELSE IF q.op = "delete" THEN "Rating deleted successfully"
  ELSE IF StarsDiffer(q) THEN "Rating updated successfully"
  ELSE "Rating added successfully"

\* The end of updateResourceStars for the request q: rating.save() of a
\* Submit returns and the handler goes on to await rating.populate; a direct
\* call returns, and so does the query of a hook that recomputed
AfterUpdate(w, q) ==
  IF q.op = "submit"
  THEN Continue(w, [q EXCEPT !.pc = "populate", !.recomputed = TRUE])
  ELSE /\ req' = [req EXCEPT ![w] = Idle]
       /\ response' = Response([q EXCEPT !.recomputed = TRUE], 200,
                               SuccessMessage(q))

\* The update without its totalRatings member
UpdateStarsOnly(w) ==
  /\ req[w].pc = "update"
  /\ LET q == req[w]
     IN /\ resources' = [resources EXCEPT
              ![q.resourceId].stars = StarsOfStats(q.sum, q.count)]
        /\ AfterUpdate(w, q)
  /\ UNCHANGED <<ratings, nextRatingId, started>>
  /\ UNCHANGED <<client, now>>

\* updateResourceStars, second await: Resource.findByIdAndUpdate; the hook is
\* over
UpdateResource(w) ==
  /\ req[w].pc = "update"
  /\ LET q == req[w]
     IN /\ resources' = [resources EXCEPT
              ![q.resourceId].stars = StarsOfStats(q.sum, q.count),
              ![q.resourceId].totalRatings = q.count]
        /\ AfterUpdate(w, q)
  /\ UNCHANGED <<ratings, nextRatingId, started>>
  /\ UNCHANGED <<client, now>>

\* await rating.populate('user', 'name email'), a read of the user, then
\* res.json({message, rating})
SubmitPopulate(w) ==
  /\ req[w].op = "submit" /\ req[w].pc = "populate"
  /\ Reply(w, 200, SuccessMessage(req[w]))
  /\ UNCHANGED <<resources, ratings, nextRatingId, started>>
  /\ UNCHANGED <<client, now>>

\* Any requester passes the check
AnyRequester(rt, u) == FALSE

\* if (rating.user.toString() !== req.userId)
NotOwner(rt, u) == rt.user # u

\* ---- DELETE /api/ratings/:ratingId, up to the first read: Rating.findById
\* and the two checks on what it returns
DeleteFindById(w, u, id) ==
  /\ FreeWorker(w)
  /\ started < MaxRequests
  /\ started' = started + 1
  /\ LET q == [Idle EXCEPT !.op = "delete", !.userId = u, !.ratingId = id]
         found == RatingsById(id)
     IN IF found = {}
        THEN /\ response' = Response(q, 404, "Rating not found")
             /\ UNCHANGED req
        ELSE LET rt == CHOOSE x \in found : TRUE
             IN IF NotOwner(rt, u)
                THEN /\ response' =
                          Response(q, 403, "Not authorized to delete this rating")
                     /\ UNCHANGED req
                ELSE Continue(w, [q EXCEPT !.pc = "delete",
                                           !.resourceId = rt.resource])
  /\ UNCHANGED <<resources, ratings, nextRatingId>>
  /\ UNCHANGED <<client, now>>

\* await Rating.findByIdAndDelete(req.params.ratingId), its post hook, and,
\* when the hook does not recompute, res.json
DeleteFindByIdAndDelete(w) ==
  /\ req[w].op = "delete" /\ req[w].pc = "delete"
  /\ ratings' = ratings \ RatingsById(req[w].ratingId)
  /\ IF HookRuns(DeleteConditions(req[w].ratingId))
     THEN Continue(w, [req[w] EXCEPT !.pc = "aggregate"])
     ELSE Reply(w, 200, SuccessMessage(req[w]))
  /\ UNCHANGED <<resources, nextRatingId, started>>
  /\ UNCHANGED <<client, now>>

Next ==
  \/ \E u \in Uploaders : Upload(u)
  \/ \E w \in Workers, u \in Users, r \in ResourceIds :
       ResourceFindById(w, "softDelete", u, r)
  \/ \E w \in Workers : ResourceFindUser(w)
  \/ \E w \in Workers : ResourceSave(w)
  \/ \E w \in Workers, u \in Users, r \in ResourceIds, b \in SubmitBodies :
       SubmitFindResource(w, u, r, b)
  \/ \E w \in Workers : SubmitFindOne(w, TRUE)
  \/ \E w \in Workers : SubmitSave(w)
  \/ \E w \in Workers : Aggregate(w)
  \/ \E w \in Workers : UpdateResource(w)
  \/ \E w \in Workers : SubmitPopulate(w)
  \/ \E w \in Workers, u \in Users, id \in RatingIds : DeleteFindById(w, u, id)
  \/ \E w \in Workers : DeleteFindByIdAndDelete(w)

Spec == Init /\ [][Next]_vars

\* ---- A store that can fail: any awaited store call of a rating request may
\* reject, and the handler's catch answers 500.

\* The first read of a request rejects: Resource.findById of POST /,
\* Rating.findById of DELETE /:ratingId
FirstReadFails(w, op) ==
  /\ FreeWorker(w)
  /\ started < MaxRequests
  /\ started' = started + 1
  /\ response' = ErrorResponse([Idle EXCEPT !.op = op], "StoreError")
  /\ UNCHANGED <<resources, ratings, nextRatingId, req>>
  /\ UNCHANGED <<client, now>>

\* The store call a request is waiting for rejects: Rating.findOne,
\* rating.save(), the aggregate or the findByIdAndUpdate of
\* updateResourceStars (the rejection passes through the post('save') hook
\* and save() to the handler), Rating.findByIdAndDelete
StoreFails(w) ==
  /\ InFlight(req[w])
  /\ req[w].op \in {"submit", "delete"}
  /\ req[w].pc # "populate"
  /\ Throw(w, "StoreError")
  /\ UNCHANGED <<resources, ratings, nextRatingId, started>>
  /\ UNCHANGED <<client, now>>

\* rating.populate, the read of the user that follows the save, rejects
\* after updateResourceStars has written the resource
PopulateFails(w) ==
  /\ req[w].op = "submit" /\ req[w].pc = "populate"
  /\ Throw(w, "StoreError")
  /\ UNCHANGED <<resources, ratings, nextRatingId, started>>
  /\ UNCHANGED <<client, now>>


\* ---- Two Submit requests for one resource, by two different users: the
\* state after user 1 has uploaded resource 1, then the first request by user
\* 2 and the second by user 3, their steps interleaved in any order.
InitRace ==
  /\ resources = <<NewResource(1)>>
  /\ ratings = {}
  /\ nextRatingId = 1
  /\ req = [w \in Workers |-> Idle]
  /\ response = NoResponse
  /\ started = 0
  /\ client = NoClient
  /\ now = 0

NextRace ==
  \/ \E w \in Workers, s \in StarInputs :
       /\ started < 2
       /\ ValidStars(s)
       /\ SubmitFindResource(w, started + 2, 1, Body(s, NoReview))
  \/ \E w \in Workers : SubmitFindOne(w, TRUE)
  \/ \E w \in Workers : SubmitSave(w)
  \/ \E w \in Workers : Aggregate(w)
  \/ \E w \in Workers : UpdateResource(w)
  \/ \E w \in Workers : SubmitPopulate(w)

SpecRace == InitRace /\ [][NextRace]_vars

\* ---- Rating requests against a store that can fail, from the state after
\* user 1 has uploaded resource 1.
NextFail ==
  \/ \E w \in Workers, u \in Users, r \in ResourceIds, b \in SubmitBodies :
       SubmitFindResource(w, u, r, b)
  \/ \E w \in Workers : SubmitFindOne(w, TRUE)
  \/ \E w \in Workers : SubmitSave(w)
  \/ \E w \in Workers : Aggregate(w)
  \/ \E w \in Workers : UpdateResource(w)
  \/ \E w \in Workers : SubmitPopulate(w)
  \/ \E w \in Workers, u \in Users, id \in RatingIds : DeleteFindById(w, u, id)
  \/ \E w \in Workers : DeleteFindByIdAndDelete(w)
  \/ \E w \in Workers, op \in {"submit", "delete"} : FirstReadFails(w, op)
  \/ \E w \in Workers : StoreFails(w)
  \/ \E w \in Workers : PopulateFails(w)

SpecFail == InitRace /\ [][NextFail]_vars

\* ---- Resource requests interleaved with rating requests.

\* The state after user 1 has uploaded resource 1 and user 2 has rated it 1;
\* then resource requests and rating requests in any interleaving.
InitResourceOps ==
  /\ resources = <<[NewResource(1) EXCEPT !.stars = 10, !.totalRatings = 1]>>
  /\ ratings = {NewRating(1, 2, 1, 1, 1)}
  /\ nextRatingId = 2
  /\ req = [w \in Workers |-> Idle]
  /\ response = NoResponse
  /\ started = 0
  /\ client = NoClient
  /\ now = 1

NextResourceOps ==
  \/ \E u \in Uploaders : Upload(u)
  \/ \E w \in Workers, r \in ResourceIds : ResourceFindById(w, "view", 0, r)
  \/ \E w \in Workers : ViewPopulate(w)
  \/ \E w \in Workers, u \in Users, r \in ResourceIds :
       ResourceFindById(w, "update", u, r)
  \/ \E w \in Workers, u \in Users, r \in ResourceIds :
       ResourceFindById(w, "softDelete", u, r)
  \/ \E w \in Workers : ResourceFindUser(w)
  \/ \E w \in Workers : ResourceSave(w)
  \/ \E w \in Workers : ResourcePopulate(w)
  \/ \E w \in Workers, u \in Users, r \in ResourceIds, b \in SubmitBodies :
       SubmitFindResource(w, u, r, b)
  \/ \E w \in Workers : SubmitFindOne(w, TRUE)
  \/ \E w \in Workers : SubmitSave(w)
  \/ \E w \in Workers : Aggregate(w)
  \/ \E w \in Workers : UpdateResource(w)
  \/ \E w \in Workers : SubmitPopulate(w)

SpecResourceOps == InitResourceOps /\ [][NextResourceOps]_vars

\* ---- Rating.updateResourceStars(resourceId) called directly, one call after
\* the other, and the statistics of GET /api/ratings/stats, on resource 1 with
\* its ratings as they stand: any set of ratings by the users
\* 2..MaxRaters + 1, and a stored aggregate that is the schema default or one
\* left behind by a rating deleted since.
Raters == 2..(MaxRaters + 1)

StaleAggregates == {<<0, 0>>, <<50, 1>>}

InitRecompute ==
  /\ \E f \in [Raters -> 0..MaxStars] :
       ratings = {NewRating(u - 1, u, 1, f[u], u - 1) :
                    u \in {x \in Raters : f[x] > 0}}
  /\ \E a \in StaleAggregates :
       resources = <<[NewResource(1) EXCEPT !.stars = a[1],
                                            !.totalRatings = a[2]]>>
  /\ nextRatingId = MaxRaters + 1
  /\ req = [w \in Workers |-> Idle]
  /\ response = NoResponse
  /\ started = 0
  /\ client = NoClient
  /\ now = MaxRaters

\* await Rating.updateResourceStars(r), up to its first await
RecomputeCall(w, r) ==
  /\ FreeWorker(w)
  /\ started < MaxCalls
  /\ started' = started + 1
  /\ Continue(w, [Idle EXCEPT !.op = "recompute", !.resourceId = r,
                              !.pc = "aggregate"])
  /\ UNCHANGED <<resources, ratings, nextRatingId>>
  /\ UNCHANGED <<client, now>>

\* distribution = { 1: 0, 2: 0, 3: 0, 4: 0, 5: 0 }, then one more in
\* distribution[star] for each star pushed by the $group
Distribution(S) ==
  [k \in (1..5) \cup {rt.stars : rt \in S} |->
     Cardinality({rt \in S : rt.stars = k})]

\* res.json({averageStars, totalRatings, starDistribution}), averageStars in
\* tenths; resourceId records req.params.resourceId
StatsResponse(r, avg, total, dist) ==
  [op |-> "stats", status |-> 200, message |-> "", recomputed |-> FALSE,
   error |-> NoError, resourceId |-> r,
   averageStars |-> avg, totalRatings |-> total, starDistribution |-> dist]

\* The 500 of the handler's catch
StatsError(r) ==
  [op |-> "stats", status |-> 500,
   message |-> "Server error while fetching rating statistics",
   recomputed |-> FALSE,
   error |-> [name |-> "TypeError", pc |-> "idle", resourceId |-> r],
   resourceId |-> r]

\* Statistics read from the fields stored on the resource
StatsFromResource(r, callable) ==
  IF ResourceExists(r)
  THEN StatsResponse(r, resources[r].stars, resources[r].totalRatings,
                     Distribution(RatingsOf(r)))
  ELSE StatsResponse(r, 0, 0, [k \in 1..5 |-> 0])

\* What GET /api/ratings/stats/:resourceId answers in the current state. The
\* $match is built with mongoose.Types.ObjectId(req.params.resourceId), a
\* call without new: bson 4 (Mongoose 6) returns the ObjectId, bson 5 and
\* later (Mongoose 7 and later) throw a TypeError, which the handler's catch
\* answers with 500. callable says which of the two the installed library
\* does. The handler reads no Resource document.
StatsOf(r, callable) ==
  IF ~callable
  THEN StatsError(r)
  ELSE LET S == RatingsOf(r)
       IN IF S = {}
          THEN StatsResponse(r, 0, 0, [k \in 1..5 |-> 0])
          ELSE StatsResponse(r, RoundTenths(SumStars(S), Cardinality(S)),
                             Cardinality(S), Distribution(S))

\* ---- GET /api/ratings/stats/:resourceId
GetStats(r, callable) ==
  /\ response' = StatsOf(r, callable)
  /\ UNCHANGED <<resources, ratings, nextRatingId, req, started>>
  /\ UNCHANGED <<client, now>>

NextRecompute ==
  \/ Quiescent /\ RecomputeCall(1, 1)
  \/ Aggregate(1)
  \/ UpdateResource(1)
  \/ \E r \in ResourceIds, callable \in BOOLEAN : GetStats(r, callable)

SpecRecompute == InitRecompute /\ [][NextRecompute]_vars

\* ---- GET /api/ratings/resource/:resourceId (op "listByResource"),
\* GET /api/ratings/user/:userId and GET /api/ratings/my-ratings (op
\* "listByUser"): a find of one page, then a countDocuments, in two awaits.
\* A rating's createdAt is the time its save() was called, which is not the
\* order the inserts reach the store in, and two ratings saved in the same
\* millisecond have the same createdAt.

Pages == 1..MaxPage

Limits == 1..MaxLimit

\* Rating.find({user})
RatingsBy(u) == {rt \in ratings : rt.user = u}

\* The filter of the request q
Matching(q) ==
  IF q.op = "listByResource" THEN RatingsOf(q.resourceId)
                             ELSE RatingsBy(q.userId)

\* sort({createdAt: -1}): the orders the store may return S in, any order
\* among the ratings of one createdAt
RECURSIVE NewestFirst(_)
NewestFirst(S) ==
  IF S = {}
  THEN {<<>>}
  ELSE UNION {{<<n>> \o rest : rest \in NewestFirst(S \ {n})} :
              n \in {x \in S : \A y \in S : y.createdAt <= x.createdAt}}

\* skip = page * limit
SkipFromPageZero(page, limit) == page * limit

\* const skip = (parseInt(page) - 1) * parseInt(limit)
Skip(page, limit) == (page - 1) * limit

\* .skip(skip).limit(limit) of a sorted result
PageSlice(sorted, skip, limit) ==
  IF skip >= Len(sorted)
  THEN <<>>
  ELSE SubSeq(sorted, skip + 1,
              IF skip + limit < Len(sorted) THEN skip + limit ELSE Len(sorted))

\* Math.ceil(total / limit)
CeilDiv(total, limit) == (total + limit - 1) \div limit

\* hasNext: skip + ratings.length < total
HasNext(page, limit, returned, total) == Skip(page, limit) + returned < total

\* res.json({ratings, pagination}); key, page and limit record the request
ListResponse(q, total) ==
  [op |-> q.op, status |-> 200, message |-> "", recomputed |-> FALSE,
   error |-> NoError,
   key |-> IF q.op = "listByResource" THEN q.resourceId ELSE q.userId,
   page |-> q.page, limit |-> q.limit,
   ratings |-> q.found,
   pagination |->
     [currentPage |-> q.page,
      totalPages |-> CeilDiv(total, q.limit),
      totalRatings |-> total,
      hasNext |-> HasNext(q.page, q.limit, Len(q.found), total),
      hasPrev |-> q.page > 1]]

\* GET /resource/:resourceId up to its first await: Resource.findById
ListFindResource(w, r, page, limit) ==
  /\ FreeWorker(w)
  /\ started < MaxRequests
  /\ started' = started + 1
  /\ LET q == [Idle EXCEPT !.op = "listByResource", !.resourceId = r,
                           !.page = page, !.limit = limit]
     IN IF ResourceNotFound(r)
        THEN /\ response' = Response(q, 404, "Resource not found")
             /\ UNCHANGED req
        ELSE Continue(w, [q EXCEPT !.pc = "find"])
  /\ UNCHANGED <<resources, ratings, nextRatingId>>
  /\ UNCHANGED <<client, now>>

\* await Rating.find(filter).populate().sort({createdAt: -1}).skip().limit();
\* seen keeps what matched at this read
ListFind(w, q) ==
  /\ \E sorted \in NewestFirst(Matching(q)) :
       Continue(w, [q EXCEPT
         !.pc = "count",
         !.found = PageSlice(sorted, Skip(q.page, q.limit), q.limit),
         !.seen = Matching(q)])
  /\ UNCHANGED <<resources, ratings, nextRatingId>>

\* GET /resource/:resourceId, its find
ListByResourceFind(w) ==
  /\ req[w].op = "listByResource" /\ req[w].pc = "find"
  /\ ListFind(w, req[w])
  /\ UNCHANGED started
  /\ UNCHANGED <<client, now>>

\* GET /user/:userId and GET /my-ratings up to the first await, the find
ListByUserFind(w, u, page, limit) ==
  /\ FreeWorker(w)
  /\ started < MaxRequests
  /\ started' = started + 1
  /\ ListFind(w, [Idle EXCEPT !.op = "listByUser", !.userId = u,
                              !.page = page, !.limit = limit])
  /\ UNCHANGED <<client, now>>

\* await Rating.countDocuments(filter), then res.json
ListCount(w) ==
  /\ req[w].op \in {"listByResource", "listByUser"} /\ req[w].pc = "count"
  /\ response' = ListResponse(req[w], Cardinality(Matching(req[w])))
  /\ req' = [req EXCEPT ![w] = Idle]
  /\ UNCHANGED <<resources, ratings, nextRatingId, started>>
  /\ UNCHANGED <<client, now>>

\* Two resources of user 1 with the ratings of users 2 and 3 (ids 1 and 2 on
\* resource 1, any of them present; ids 3 and 4 on resource 2) and the
\* aggregates of those ratings stored.
ListStars == 4

InitList ==
  /\ \E have \in {s \cup {3, 4} : s \in SUBSET {1, 2}} :
       /\ ratings = {NewRating(id, 2 + ((id - 1) % 2), 1 + ((id - 1) \div 2),
                               ListStars, id) : id \in have}
       /\ resources =
            [r \in 1..2 |->
               LET n == Cardinality({id \in have : 1 + ((id - 1) \div 2) = r})
               IN [NewResource(1) EXCEPT
                     !.stars = IF n = 0 THEN 0 ELSE 10 * ListStars,
                     !.totalRatings = n]]
  /\ nextRatingId = 5
  /\ req = [w \in Workers |-> Idle]
  /\ response = NoResponse
  /\ started = 0
  /\ client = NoClient
  /\ now = 4

NextList ==
  \/ \E w \in Workers, r \in ResourceIds, page \in Pages, limit \in Limits :
       ListFindResource(w, r, page, limit)
  \/ \E w \in Workers : ListByResourceFind(w)
  \/ \E w \in Workers, u \in Users, page \in Pages, limit \in Limits :
       ListByUserFind(w, u, page, limit)
  \/ \E w \in Workers : ListCount(w)
  \/ \E w \in Workers, u \in Users :
       SubmitFindResource(w, u, 1, Body(10 * ListStars, NoReview))
  \/ \E w \in Workers, tick \in BOOLEAN : SubmitFindOne(w, tick)
  \/ \E w \in Workers : SubmitSave(w)
  \/ \E w \in Workers : Aggregate(w)
  \/ \E w \in Workers : UpdateResource(w)
  \/ \E w \in Workers : SubmitPopulate(w)
  \/ \E w \in Workers, u \in Users, id \in RatingIds : DeleteFindById(w, u, id)
  \/ \E w \in Workers : DeleteFindByIdAndDelete(w)

SpecList == InitList /\ [][NextList]_vars

\* ---- The api client of the frontend: axios with a request interceptor that
\* adds the stored token and a response interceptor that answers a 401 with
\* one token refresh and one retry. The server's answers are left open: any of
\* the statuses, whatever the token. _retry is kept by axios when the config
\* is passed to api() again.

\* The statuses the api answers with, and the token a refresh returns
Statuses == {200, 401, 500}

RefreshedToken == 2

\* A handler that does not look at _retry
RefreshOnEvery401(status, retry) == status = 401

\* if (error.response?.status === 401 && !originalRequest._retry)
ShouldRefresh(status, retry) == status = 401 /\ ~retry

\* localStorage.removeItem('token'), ('refreshToken'), ('user')
RemoveItems(items) == LoggedOut

\* api(config): the request interceptor adds the stored token, if any
ApiSend(i, call) ==
  client' = [client EXCEPT
    !.calls[i] = [call EXCEPT
       !.pc = "sent",
       !.authorization = IF client.localStorage.token # NoItem
                         THEN client.localStorage.token ELSE @,
       !.sends = @ + 1]]

\* checkAuth: if (token && refreshToken && user)
HasSession(items) ==
  items.token # NoItem /\ items.refreshToken # NoItem /\ items.user # NoItem

\* A component, login, register or checkAuth calls the api; checkAuth does
\* so only with a session stored
ApiCall(i, kind) ==
  /\ client.calls[i].pc = "new"
  /\ kind = "getMe" => HasSession(client.localStorage)
  /\ ApiSend(i, [client.calls[i] EXCEPT !.kind = kind])
  /\ UNCHANGED <<resources, ratings, nextRatingId, req, response, started,
               now>>

\* What the caller of the api does to localStorage once its call is settled:
\* login and register store the session of the response, the catch of
\* checkAuth removes the session, a component leaves it
AfterSettled(call, items) ==
  IF call.kind \in {"login", "register"} /\ call.pc = "resolved"
  THEN LoggedIn
  ELSE IF call.kind = "getMe" /\ call.pc = "rejected"
  THEN RemoveItems(items)
  ELSE items

\* The call i is settled as call, the interceptor leaving localStorage as
\* items
Settle(i, call, items) ==
  client' = [client EXCEPT !.calls[i] = call,
                           !.localStorage = AfterSettled(call, items)]

\* The response interceptor: a response passes; an error is rejected, after
\* the 401 handling up to its await of axios.post(.../auth/refresh)
ApiResponse(i, status) ==
  /\ client.calls[i].pc = "sent"
  /\ LET call == [client.calls[i] EXCEPT !.status = status]
     IN IF status = 200
        THEN Settle(i, [call EXCEPT !.pc = "resolved"], client.localStorage)
        ELSE IF ShouldRefresh(status, call.retry)
        THEN IF client.localStorage.refreshToken # NoItem
             THEN client' = [client EXCEPT
                    !.calls[i] = [call EXCEPT !.retry = TRUE,
                                              !.pc = "refreshing",
                                              !.refreshes = @ + 1]]
             ELSE Settle(i, [call EXCEPT !.retry = TRUE, !.pc = "rejected"],
                         [client.localStorage EXCEPT !.token = NoItem,
                                                     !.user = NoItem])
        ELSE Settle(i, [call EXCEPT !.pc = "rejected"], client.localStorage)
  /\ UNCHANGED <<resources, ratings, nextRatingId, req, response, started,
               now>>

\* The refresh answers with a token: it is stored, set as the Authorization
\* header, and the original request is made again
RefreshSucceeds(i) ==
  /\ client.calls[i].pc = "refreshing"
  /\ client.calls[i].sends < MaxSends
  /\ client' = [client EXCEPT
        !.localStorage = [@ EXCEPT !.token = RefreshedToken],
        !.calls[i] = [@ EXCEPT !.pc = "sent",
                               !.authorization = RefreshedToken,
                               !.sends = @ + 1]]
  /\ UNCHANGED <<resources, ratings, nextRatingId, req, response, started,
               now>>

\* The refresh fails: the catch removes the session, and the error of the
\* original request is rejected
RefreshFails(i) ==
  /\ client.calls[i].pc = "refreshing"
  /\ Settle(i, [client.calls[i] EXCEPT !.pc = "rejected"],
            RemoveItems(client.localStorage))
  /\ UNCHANGED <<resources, ratings, nextRatingId, req, response, started,
               now>>

\* logout(): removeItem('token') and removeItem('user'); the refreshToken
\* stays
Logout ==
  /\ client' = [client EXCEPT !.localStorage = [@ EXCEPT !.token = NoItem,
                                                          !.user = NoItem]]
  /\ UNCHANGED <<resources, ratings, nextRatingId, req, response, started,
               now>>

\* The user item updateUser stores
UpdatedUser == 2

\* updateUser(userData): setItem('user', ...), whatever else is stored
UpdateUser ==
  /\ client' = [client EXCEPT !.localStorage = [@ EXCEPT !.user = UpdatedUser]]
  /\ UNCHANGED <<resources, ratings, nextRatingId, req, response, started,
               now>>

\* The browser with a session stored or with none, and no call made yet
InitClient ==
  /\ resources = <<>>
  /\ ratings = {}
  /\ nextRatingId = 1
  /\ req = [w \in Workers |-> Idle]
  /\ response = NoResponse
  /\ started = 0
  /\ now = 0
  /\ \E items \in {LoggedIn, LoggedOut} :
       client = [NoClient EXCEPT !.localStorage = items]

NextClient ==
  \/ \E i \in ApiCalls, kind \in CallKinds : ApiCall(i, kind)
  \/ \E i \in ApiCalls, status \in Statuses : ApiResponse(i, status)
  \/ \E i \in ApiCalls : RefreshSucceeds(i)
  \/ \E i \in ApiCalls : RefreshFails(i)
  \/ Logout
  \/ UpdateUser

SpecClient == InitClient /\ [][NextClient]_vars

\* ---- what the claims speak of

\* The mean of the stars of the ratings S in tenths, rounded to the nearest
\* tenth, a half rounding up; 0 for no rating
RoundedMean(S) ==
  IF S = {} THEN 0
  ELSE LET n == Cardinality(S)
           sum == SumStars(S)
       IN CHOOSE k \in 0..(10 * MaxStars) :
            /\ 20 * sum - 2 * k * n < n
            /\ 20 * sum - 2 * k * n >= 0 - n

TotalExact(r) == resources[r].totalRatings = Cardinality(RatingsOf(r))

StarsExact(r) == resources[r].stars = RoundedMean(RatingsOf(r))

\* A request body whose stars is one of the integers 1..5 and whose review,
\* if it has one, is no longer than 500 characters
WellFormed(b) ==
  /\ b.stars = 10 \/ b.stars = 20 \/ b.stars = 30 \/ b.stars = 40
       \/ b.stars = 50
  /\ b.review = NoReview \/ (b.review >= 0 /\ b.review < 501)

\* Worker w ends a request of kind op with this step, and answers 200
Succeeds(w, op) ==
  /\ req[w].op = op
  /\ InFlight(req[w])
  /\ ~InFlight(req'[w])
  /\ response'.status = 200

\* C1: with no request in flight, every resource's totalRatings is the number
\* of Rating documents that exist for it.
C1_TotalRatingsIsCount ==
  Quiescent => \A r \in 1..Len(resources) : TotalExact(r)

\* C2: with no request in flight, every resource's stars is the mean of the
\* stars of its ratings rounded to one decimal, and 0 when it has none.
C2_StarsIsRoundedMean ==
  Quiescent => \A r \in 1..Len(resources) : StarsExact(r)

\* C3: when two Submit requests by two different users for the same resource
\* have both completed, however their steps interleaved, the resource's
\* totalRatings counts both ratings and its stars is the mean over both.
C3_BothSubmitsCounted ==
  (started = 2 /\ Quiescent) =>
    /\ Cardinality(RatingsOf(1)) = 2
    /\ resources[1].totalRatings = 2
    /\ StarsExact(1)

\* C4: at most one Rating exists for any (user, resource) pair, in every
\* state, also while requests of the same user run concurrently.
C4_OneRatingPerPair ==
  \A a \in ratings, b \in ratings :
    (a.user = b.user /\ a.resource = b.resource) => a = b

\* C4's case: of two requests, one inserted the pair's rating and the other
\* was answered 500. With two requests received there is no rating to have
\* vanished under a save, so the 500 is the duplicate key of the second insert.
C4_DuplicateInsertRejected ==
  /\ started = 2
  /\ response.op = "submit"
  /\ response.status = 500
  /\ Cardinality(ratings) = 1

\* C5: a Submit by a user who has a rating for the resource, with no other
\* request on the resource overlapping it, writes the new stars to that same
\* Rating and adds none, and leaves the resource's totalRatings as it was.
C5_ResubmitKeepsTotal ==
  [][\A w \in Workers, r \in ResourceIds :
       (/\ req[w].op = "submit"
        /\ req[w].resourceId = r
        /\ req[w].rating # NoRating
        /\ ~req[w].overlapped)
       => /\ (req[w].pc = "save" /\ req'[w].pc = "aggregate")
               => /\ {rt.id : rt \in ratings'} = {rt.id : rt \in ratings}
                  /\ \E rt \in ratings' :
                       /\ rt.id = req[w].rating.id
                       /\ rt.stars = req[w].stars
          /\ (req[w].pc = "update" /\ req'[w].pc = "populate")
               => resources'[r].totalRatings = resources[r].totalRatings]_vars

\* C6: when a Delete that no other request on the resource overlapped has
\* succeeded and has left the resource without a rating (it removed the only
\* one), the resource's stars and totalRatings are both 0.
C6_DeleteOnlyRatingResets ==
  [][\A w \in Workers, r \in ResourceIds :
       (/\ Succeeds(w, "delete")
        /\ req[w].resourceId = r
        /\ ~req[w].overlapped
        /\ RatingsOf(r)' = {})
       => /\ resources'[r].stars = 0
          /\ resources'[r].totalRatings = 0]_vars

\* C7: every rating request answered 200, a Submit that created or updated a
\* rating as well as a Delete, has had updateResourceStars write the resource
\* before its response was sent.
C7_SuccessRecomputes ==
  (response.status = 200 /\ response.op \in {"submit", "delete"})
    => response.recomputed

\* C8: when a Submit that no other request on the resource overlapped is
\* answered 200, the user's rating holds the stars submitted and the
\* resource's stars and totalRatings are the aggregate of its ratings; with
\* that rating the only one, stars is the value submitted and totalRatings 1.
C8_SubmitSeesAggregate ==
  [][\A w \in Workers, r \in ResourceIds :
       (/\ Succeeds(w, "submit")
        /\ req[w].resourceId = r
        /\ ~req[w].overlapped)
       => /\ \E rt \in ratings' :
               /\ rt.user = req[w].userId
               /\ rt.resource = r
               /\ rt.stars = req[w].stars
          /\ TotalExact(r)'
          /\ StarsExact(r)'
          /\ Cardinality(RatingsOf(r)') = 1
               => /\ resources'[r].stars = 10 * req[w].stars
                  /\ resources'[r].totalRatings = 1]_vars

\* C8's case: a user who had rated the resource 3 has submitted 1, alone; the
\* rating is saved and counted, and the resource is about to be written.
C8_Resubmitted ==
  \E w \in Workers :
    /\ req[w].op = "submit"
    /\ req[w].pc = "update"
    /\ ~req[w].overlapped
    /\ req[w].rating.stars = 3
    /\ req[w].stars = 1
    /\ req[w].count = 1

NoSelfRating ==
  \A rt \in ratings : resources[rt.resource].uploadedBy # rt.user

\* C9: a valid Submit by the uploader of an active resource is answered 400
\* "Cannot rate your own resource" and changes nothing; and no Rating ever
\* exists whose user is the uploader of its resource.
C9_SelfRatingRejected ==
  [][/\ NoSelfRating'
     /\ \A w \in Workers, u \in Users, r \in ResourceIds, b \in SubmitBodies :
          (/\ started' # started
           /\ WellFormed(b)
           /\ r \in 1..Len(resources)
           /\ resources[r].isActive
           /\ resources[r].uploadedBy = u
           /\ SubmitFindResource(w, u, r, b))
          => /\ response'.status = 400
             /\ response'.message = "Cannot rate your own resource"
             /\ UNCHANGED <<resources, ratings, nextRatingId, req>>]_vars

\* C9's case: a Submit has been answered with the SelfRating error.
C9_SelfRatingAnswered ==
  /\ response.op = "submit"
  /\ response.message = "Cannot rate your own resource"

\* C10: a valid Submit for a resourceId that has no document, or whose
\* resource is inactive, is answered 404 "Resource not found"; no Rating is
\* created or changed, updateResourceStars does not run, and no resource
\* changes.
C10_MissingResourceNotFound ==
  [][\A w \in Workers, u \in Users, r \in ResourceIds, b \in SubmitBodies :
       (/\ started' # started
        /\ WellFormed(b)
        /\ (r \notin 1..Len(resources) \/ ~resources[r].isActive)
        /\ SubmitFindResource(w, u, r, b))
       => /\ response'.status = 404
          /\ response'.message = "Resource not found"
          /\ ~response'.recomputed
          /\ UNCHANGED <<resources, ratings, nextRatingId, req>>]_vars

\* C10's case: a Submit has been answered 404 while a resource that was
\* rated before it was soft-deleted keeps its rating and its aggregate.
C10_NotFoundAnswered ==
  /\ response.op = "submit"
  /\ response.status = 404
  /\ \E r \in 1..Len(resources) :
       /\ ~resources[r].isActive
       /\ RatingsOf(r) # {}
       /\ resources[r].totalRatings = 1

\* C11: a Submit whose stars is not an integer in 1..5, or whose review is
\* longer than 500 characters, is answered 400 at once: no request is taken
\* in hand, and no rating and no resource changes; and every Rating that
\* exists has stars in 1..5.
C11_InvalidInputRejected ==
  [][/\ \A rt \in ratings' : rt.stars \in 1..5
     /\ \A w \in Workers, u \in Users, r \in ResourceIds, b \in SubmitBodies :
          (/\ started' # started
           /\ ~WellFormed(b)
           /\ SubmitFindResource(w, u, r, b))
          => /\ response'.status = 400
             /\ response'.message \in {"Stars must be between 1 and 5",
                                       "Review cannot exceed 500 characters"}
             /\ ~response'.recomputed
             /\ UNCHANGED <<resources, ratings, nextRatingId, req>>]_vars

\* C11's case: with a rating stored, a Submit was answered 400 for its review
\* and, before it, one for its stars.
C11_InvalidAnswered ==
  /\ ratings # {}
  /\ started = MaxRequests
  /\ response.op = "submit"
  /\ response.status = 400
  /\ response.message = "Review cannot exceed 500 characters"
\* C12: a Delete for an id no Rating has is answered 404 "Rating not found",
\* and one by a user other than the rating's is answered 403; either leaves
\* ratings and resources as they were. A Rating that disappears is removed
\* by a Delete request of the user who created it.
C12_DeleteNotFoundForbidden ==
  [][/\ \A rt \in ratings :
          (\A x \in ratings' : x.id # rt.id)
          => \E w \in Workers :
               /\ req[w].op = "delete"
               /\ req[w].ratingId = rt.id
               /\ req[w].userId = rt.user
               /\ req'[w] = Idle
     /\ \A w \in Workers, u \in Users, id \in RatingIds :
          (started' # started /\ DeleteFindById(w, u, id))
          => /\ (\A rt \in ratings : rt.id # id)
                  => /\ response'.status = 404
                     /\ response'.message = "Rating not found"
                     /\ UNCHANGED <<resources, ratings, nextRatingId, req>>
             /\ (\E rt \in ratings : rt.id = id /\ rt.user # u)
                  => /\ response'.status = 403
                     /\ response'.message =
                          "Not authorized to delete this rating"
                     /\ UNCHANGED <<resources, ratings, nextRatingId, req>>
     ]_vars

\* C12's case: a Delete of a rating that exists and has been counted was
\* answered 403.
C12_ForbiddenAnswered ==
  /\ response.op = "delete"
  /\ response.status = 403
  /\ \E rt \in ratings : resources[rt.resource].totalRatings = 1
\* C13: when the insert of a Submit that saw no rating meets a rating that a
\* concurrent Submit of the same user has stored for the resource meanwhile,
\* the request is not answered with a failure: it goes on as an update, the
\* pair's one rating holding its stars.
C13_DuplicateKeyRecovered ==
  [][\A w \in Workers :
       (/\ req[w].op = "submit"
        /\ req[w].pc = "save"
        /\ req[w].rating = NoRating
        /\ RatingsOfPair(req[w].userId, req[w].resourceId) # {}
        /\ req'[w].pc # "save")
       => /\ InFlight(req'[w]) \/ response'.status = 200
          /\ \A a \in ratings', b \in ratings' :
               (a.user = b.user /\ a.resource = b.resource) => a = b
          /\ \E rt \in ratings' :
               /\ rt.user = req[w].userId
               /\ rt.resource = req[w].resourceId
               /\ rt.stars = req[w].stars]_vars
\* C14: the message of a Submit answered 200, which no other request on the
\* resource overlapped, says "Rating updated successfully" exactly when the
\* user's rating for the resource existed before the request, and "Rating
\* added successfully" exactly when it did not.
C14_MessageTellsCreateFromUpdate ==
  [][\A w \in Workers :
       (Succeeds(w, "submit") /\ ~req[w].overlapped)
       => /\ response'.message = "Rating updated successfully"
               <=> req[w].rating # NoRating
          /\ response'.message = "Rating added successfully"
               <=> req[w].rating = NoRating]_vars
\* C15: of two calls of updateResourceStars for a resource, one after the
\* other with no Rating created, updated or deleted in between, the second
\* leaves the resource's stars and totalRatings as the first wrote them.
C15_RecomputeIdempotent ==
  [][(started = MaxCalls /\ UpdateResource(1) /\ UNCHANGED ratings)
     => /\ resources'[1].stars = resources[1].stars
        /\ resources'[1].totalRatings = resources[1].totalRatings]_vars

\* C15's case: the second call has returned, the resource having three
\* ratings.
C15_RecomputedTwice ==
  /\ started = MaxCalls
  /\ Quiescent
  /\ response.recomputed
  /\ Cardinality(ratings) = 3
  /\ resources[1].totalRatings = 3

\* C16: a call of updateResourceStars that nothing interleaves with writes
\* totalRatings = the number of the resource's ratings and 10 * stars = the
\* integer k nearest to 10 * sum / count, a half rounding up, which is
\* floor((20 * sum + count) / (2 * count)); with no rating it writes 0 and 0.
C16_RecomputeWritesRoundedMean ==
  [][UpdateResource(1)
     => LET S == RatingsOf(1)
            n == Cardinality(S)
            k == resources'[1].stars
        IN /\ resources'[1].totalRatings = n
           /\ k = RoundedMean(S)
           /\ n = 0 => k = 0
           /\ n > 0 => /\ 2 * n * k <= 20 * SumStars(S) + n
                       /\ 20 * SumStars(S) + n < 2 * n * (k + 1)]_vars

\* C16's case: the ratings 1, 1, 1 and 2, whose mean 1.25 lies halfway between
\* two tenths, have been written as 1.3.
C16_HalfRoundedUp ==
  /\ Quiescent
  /\ response.recomputed
  /\ Cardinality(ratings) = 4
  /\ SumStars(ratings) = 5
  /\ resources[1].stars = 13
  /\ resources[1].totalRatings = 4
\* C17: the statistics GET /api/ratings/stats answers with for an existing
\* resource are totalRatings = the number of its ratings, averageStars = their
\* mean rounded to one decimal, and a starDistribution whose keys are exactly
\* 1..5, each value the number of ratings with that many stars and the five
\* summing to totalRatings; 4.7, 3 and {1:0, 2:0, 3:0, 4:1, 5:2} for the
\* ratings 5, 5 and 4, and all zeros for no rating.
C17_StatsOfLiveRatings ==
  (response.op = "stats" /\ response.resourceId = 1)
  => LET S == RatingsOf(1)
     IN /\ response.status = 200
        /\ response.totalRatings = Cardinality(S)
        /\ response.averageStars = RoundedMean(S)
        /\ DOMAIN response.starDistribution = 1..5
        /\ \A k \in 1..5 :
             response.starDistribution[k] =
               Cardinality({rt \in S : rt.stars = k})
        /\ response.starDistribution[1] + response.starDistribution[2]
             + response.starDistribution[3] + response.starDistribution[4]
             + response.starDistribution[5] = response.totalRatings
        /\ (Cardinality(S) = 3 /\ SumStars(S) = 14
             /\ \A rt \in S : rt.stars \in {4, 5})
             => /\ response.averageStars = 47
                /\ response.totalRatings = 3
                /\ response.starDistribution =
                     (1 :> 0) @@ (2 :> 0) @@ (3 :> 0) @@ (4 :> 1) @@ (5 :> 2)
        /\ S = {}
             => /\ response.averageStars = 0
                /\ response.totalRatings = 0
                /\ \A k \in 1..5 : response.starDistribution[k] = 0
\* C18: stars and totalRatings of an existing resource change only in the
\* findByIdAndUpdate of updateResourceStars for that resource: no view,
\* update or soft delete changes either, whatever recomputation it
\* interleaves with; and a resource that is created has both at 0.
C18_OnlyRecomputeWritesAggregate ==
  [][/\ \A r \in 1..Len(resources) :
          (\/ resources'[r].stars # resources[r].stars
           \/ resources'[r].totalRatings # resources[r].totalRatings)
          => \E w \in Workers :
               /\ req[w].pc = "update"
               /\ req[w].resourceId = r
               /\ req[w].op \notin {"view", "update", "softDelete"}
               /\ req'[w].pc \in {"idle", "populate"}
     /\ Len(resources') >= Len(resources)
     /\ \A r \in (Len(resources) + 1)..Len(resources') :
          resources'[r].stars = 0 /\ resources'[r].totalRatings = 0]_vars

\* C18's case: a view holds the document it read when totalRatings was 1,
\* its download count raised in memory, and is about to save it, while a
\* recomputation has since written totalRatings 2.
C18_SaveAfterRecompute ==
  \E w \in Workers :
    /\ req[w].op = "view"
    /\ req[w].pc = "saveResource"
    /\ req[w].resourceId = 1
    /\ req[w].doc.totalRatings = 1
    /\ req[w].doc.downloadCount = 1
    /\ resources[1].totalRatings = 2
\* The last response is the 500 of a Submit on resource r whose store call
\* rejected in updateResourceStars, after its rating.save() had written
FailedInRecompute(r) ==
  /\ response.op = "submit"
  /\ response.status = 500
  /\ response.error.name = "StoreError"
  /\ response.error.pc \in {"aggregate", "update"}
  /\ response.error.resourceId = r

\* C19: after a Submit on a resource was answered 500 because the store
\* failed in its recomputation, the next rating request on that resource
\* that is answered 200, a Submit or a Delete, leaves the resource's stars
\* and totalRatings the aggregate of its ratings.
C19_NextMutationRestores ==
  [][\A w \in Workers, r \in ResourceIds :
       (/\ FailedInRecompute(r)
        /\ Succeeds(w, "submit") \/ Succeeds(w, "delete")
        /\ req[w].resourceId = r
        /\ ~req[w].overlapped)
       => TotalExact(r)' /\ StarsExact(r)']_vars

\* Worker w ends its request with this step, and answers with an error
Fails(w) ==
  /\ InFlight(req[w])
  /\ ~InFlight(req'[w])
  /\ response'.status # 200

\* C20 as stated: a Submit or Delete that ends in an error response has
\* written neither the Rating collection nor the resource.
C20_ErrorLeavesNoEffect ==
  [][\A w \in Workers :
       Fails(w) => ~req[w].saved /\ ~response'.recomputed]_vars

\* C20, amended: a request that has not come to its rating.save() or its
\* findByIdAndDelete has changed neither ratings nor resources; a request
\* that ends in an error response has
\* written nothing, unless it is a Submit whose store call rejected after its
\* rating.save(), in updateResourceStars or in the populate that follows,
\* and then its Rating write stays (as long as no other request on the
\* resource overlapped it), with the resource written only if the rejection
\* came after updateResourceStars; a Delete that ends in an error has
\* removed nothing.
C20_ErrorEffectOnlyAfterSave ==
  [][/\ (started' # started /\ UNCHANGED req)
          => /\ response'.status # 200
             /\ UNCHANGED <<ratings, resources>>
     /\ \A w \in Workers :
          /\ (req'[w].pc # req[w].pc
                 /\ req'[w].pc \in {"findOne", "save", "delete"})
               => UNCHANGED <<ratings, resources>>
          /\ Fails(w)
               => /\ UNCHANGED ratings
                  /\ resources' # resources => response'.recomputed
                  /\ response'.recomputed
                       => response'.error.pc = "populate"
                  /\ (req[w].saved \/ response'.recomputed)
                       => /\ req[w].op = "submit"
                          /\ response'.error.name = "StoreError"
                          /\ response'.error.pc \in
                               {"aggregate", "update", "populate"}
                          /\ ~req[w].overlapped
                               => \E rt \in ratings' :
                                    /\ rt.user = req[w].userId
                                    /\ rt.resource = req[w].resourceId
                                    /\ rt.stars = req[w].stars
                  /\ (req[w].op = "delete" /\ ~req[w].overlapped)
                       => \E rt \in ratings' : rt.id = req[w].ratingId]_vars

\* C20's case: a Submit was answered 500 for a store failure in
\* updateResourceStars; its rating is stored and the resource still has the
\* aggregate of no rating.
C20_RatingKeptAfterError ==
  /\ FailedInRecompute(1)
  /\ Cardinality(RatingsOf(1)) = 1
  /\ resources[1].totalRatings = 0
  /\ resources[1].stars = 0
  /\ Quiescent
\* C21: GET /api/ratings/stats for an id that no resource has is answered
\* 404; statistics are answered (200) only for a resource that exists.
C21_StatsOfMissingResourceNotFound ==
  response.op = "stats"
  => /\ response.resourceId \notin 1..Len(resources)
          => response.status = 404
     /\ response.status = 200
          => response.resourceId \in 1..Len(resources)

\* C24: a stats request changes no rating, no resource and no request; and
\* what it answers is the same before and after any step that leaves the
\* resource's ratings as they were, whatever that step does to the stars
\* and totalRatings stored on the resource.
C24_StatsReadOnlyOfRatings ==
  [][/\ (response' # response /\ response'.op = "stats")
          => UNCHANGED <<resources, ratings, nextRatingId, req, started>>
     /\ \A r \in ResourceIds, callable \in BOOLEAN :
          RatingsOf(r)' = RatingsOf(r)
          => StatsOf(r, callable)' = StatsOf(r, callable)]_vars

\* C24's case: statistics were answered for three ratings while the resource
\* stored the aggregate of one rating deleted since.
C24_StatsBesideStaleAggregate ==
  /\ response.op = "stats"
  /\ response.status = 200
  /\ response.resourceId = 1
  /\ response.totalRatings = 3
  /\ resources[1].totalRatings = 1
  /\ resources[1].stars = 50
\* The sequence page holds, newest first, the ratings of S at the places
\* skip + 1, skip + 2, ... of S ordered by createdAt, as many as limit and S
\* allow: each has no more than its place - 1 ratings newer than it and at
\* least that many others no older, and none is there twice.
IsPageOf(page, S, skip, limit) ==
  /\ Len(page) = IF Cardinality(S) <= skip THEN 0
                 ELSE IF Cardinality(S) - skip < limit
                      THEN Cardinality(S) - skip ELSE limit
  /\ \A i \in 1..Len(page) :
       /\ page[i] \in S
       /\ \A j \in 1..Len(page) : page[j] = page[i] => j = i
       /\ Cardinality({y \in S : y.createdAt > page[i].createdAt})
            <= skip + i - 1
       /\ Cardinality({y \in S \ {page[i]} :
                         y.createdAt >= page[i].createdAt}) >= skip + i - 1

\* The answer a to the list request q, whose find met the ratings atFind and
\* whose count met the ratings atCount
ListAnswer(a, q, atFind, atCount) ==
  LET skip == (q.page - 1) * q.limit
      total == Cardinality(atCount)
      pg == a.pagination
  IN /\ a.status = 200
     /\ pg.currentPage = q.page
     /\ pg.totalPages * q.limit >= total
     /\ (pg.totalPages - 1) * q.limit < total
     /\ pg.totalRatings = total
     /\ pg.hasPrev <=> q.page > 1
     /\ pg.hasNext <=> skip + Len(a.ratings) < total
     /\ IsPageOf(a.ratings, atFind, skip, q.limit)
     /\ atFind = atCount
          => (pg.hasNext <=>
                \E x \in atCount :
                   Cardinality({y \in atCount \ {x} :
                                  y.createdAt >= x.createdAt})
                     >= skip + q.limit)

\* A step of a list request of worker w
ListStep(w) ==
  /\ req[w] # req'[w]
  /\ \/ req[w].op \in {"listByResource", "listByUser"}
     \/ req'[w].op \in {"listByResource", "listByUser"}

\* C22: a list request changes no state, and for page >= 1 and limit >= 1 it
\* answers currentPage = page, hasPrev = (page > 1), totalRatings = the number
\* of matching ratings (those its countDocuments meets), totalPages =
\* ceil(total / limit), hasNext = (skip + number of returned ratings < total)
\* with skip = (page - 1) * limit, and as ratings the slice from skip, newest
\* first, of the matching ratings (those its find meets); when the two reads
\* meet the same ratings, hasNext holds exactly when matching ratings lie
\* beyond the page.
C22_ListDescribesMatchingRatings ==
  [][\A w \in Workers :
       /\ ListStep(w) => UNCHANGED <<resources, ratings, nextRatingId>>
       /\ (req[w].pc = "count" /\ req'[w].pc = "idle")
            => ListAnswer(response', req[w], req[w].seen,
                          Matching(req[w]))]_vars

\* C22's case: the first page of one rating answered for a user with two
\* ratings, and a later page follows.
C22_FirstOfTwoPages ==
  /\ response.op = "listByUser"
  /\ response.status = 200
  /\ response.page = 1
  /\ response.limit = 1
  /\ Len(response.ratings) = 1
  /\ response.ratings[1].id = 3
  /\ response.pagination.totalRatings = 2
  /\ response.pagination.totalPages = 2
  /\ response.pagination.hasNext
  /\ ~response.pagination.hasPrev
\* The rating.save() of the Submit of worker w has written
SubmitSaved(w) ==
  /\ req[w].op = "submit"
  /\ req[w].pc = "save"
  /\ req'[w].pc = "aggregate"

\* The save of the Submit of worker w left the pair's one rating with the
\* stars of the request and with the review of the request, or, when the
\* request has none, with the review stored before (empty if none was)
UpsertStored(w) ==
  LET q == req[w]
      before == RatingsOfPair(q.userId, q.resourceId)
      after == {rt \in ratings' :
                  rt.user = q.userId /\ rt.resource = q.resourceId}
  IN /\ Cardinality(after) = 1
     /\ \A new \in after :
          /\ new.stars = q.stars
          /\ \A old \in before :
               /\ new.id = old.id
               /\ new.review = IF q.review = NoReview THEN old.review
                                                      ELSE q.review
          /\ before = {}
               => new.review = IF q.review = NoReview THEN 0 ELSE q.review

\* C23: the save of a Submit that no other request on the resource overlapped
\* overwrites the stars of an existing rating always and its review only when
\* the request provides one; without a review a resubmission leaves the
\* stored review as it was and a first Submit stores an empty one.
C23_ReviewKeptUnlessProvided ==
  [][\A w \in Workers :
       (SubmitSaved(w) /\ ~req[w].overlapped) => UpsertStored(w)]_vars

\* C23's case: a resubmission of 1 star without a review has been answered,
\* and the rating still holds the review of 500 characters given before.
C23_ResubmittedWithoutReview ==
  /\ response.op = "submit"
  /\ response.status = 200
  /\ \E rt \in ratings : rt.stars = 1 /\ rt.review = MaxReviewLength
\* C25: in every state, also with requests in flight, each resource has
\* totalRatings >= 0 and 0 <= stars <= 5 (stars is held in tenths), and stars
\* is 0 exactly when totalRatings is 0.
C25_AggregateFieldsAgree ==
  \A r \in 1..Len(resources) :
    /\ resources[r].totalRatings >= 0
    /\ resources[r].stars >= 0
    /\ resources[r].stars <= 10 * MaxStars
    /\ resources[r].stars = 0 <=> resources[r].totalRatings = 0

\* C25's case: two recomputations of a rated resource are about to write it,
\* one with an aggregate of two ratings and one with an aggregate of one.
C25_TwoRecomputesInFlight ==
  /\ Len(resources) >= 1
  /\ resources[1].totalRatings >= 1
  /\ req[1].pc = "update" /\ req[2].pc = "update"
  /\ req[1].resourceId = 1 /\ req[2].resourceId = 1
  /\ req[1].count # req[2].count
\* C26: a resource that is soft-deleted stays so and stays in the collection,
\* and no step after the soft delete changes its ratings or its stored
\* aggregate, not even the step of a Submit that had passed its resource
\* check before.
C26_SoftDeletedIsFrozen ==
  [][\A r \in ResourceIds :
       (ResourceExists(r) /\ ~resources[r].isActive)
       => /\ Len(resources') >= r
          /\ ~resources'[r].isActive
          /\ RatingsOf(r)' = RatingsOf(r)
          /\ resources'[r].stars = resources[r].stars
          /\ resources'[r].totalRatings = resources[r].totalRatings]_vars
\* C27: a step of a Submit or a Delete of user u that targets resource R
\* changes no rating other than u's rating for R and no other resource's
\* stars or totalRatings; and no step changes the user or the resource of a
\* rating that stays.
C27_OnlyOwnRatingOfTarget ==
  [][/\ \A w \in Workers :
          (req[w].op \in {"submit", "delete"} /\ req[w].pc # req'[w].pc)
          => /\ \A rt \in (ratings \ ratings') \cup (ratings' \ ratings) :
                  rt.user = req[w].userId /\ rt.resource = req[w].resourceId
             /\ \A r \in 1..Len(resources) :
                  r # req[w].resourceId
                  => /\ resources'[r].stars = resources[r].stars
                     /\ resources'[r].totalRatings = resources[r].totalRatings
     /\ \A old \in ratings, new \in ratings' :
          old.id = new.id
          => old.user = new.user /\ old.resource = new.resource]_vars

\* C27's case: a user's rating of resource 1 has been deleted while a rating
\* of resource 2 is stored.
C27_DeletedBesideOtherResource ==
  /\ response.op = "delete"
  /\ response.status = 200
  /\ RatingsOf(1) = {}
  /\ RatingsOf(2) # {}
\* C28: the step that completes a view of a resource raises its downloadCount
\* by exactly one, so that N completed views raise it by N; no other step
\* changes a downloadCount, and a view answered 404 changes nothing.
C28_ViewCountsOnce ==
  [][\A r \in 1..Len(resources) :
       IF \E w \in Workers :
            /\ req[w].op = "view" /\ req[w].resourceId = r
            /\ req[w].pc = "saveResource" /\ req'[w].pc = "idle"
       THEN resources'[r].downloadCount = resources[r].downloadCount + 1
       ELSE resources'[r].downloadCount = resources[r].downloadCount]_vars
\* The requester of the request q is the uploader of its resource or an admin
MayChange(q) ==
  resources[q.resourceId].uploadedBy = q.userId \/ Role(q.userId) = "admin"

\* C29: a PUT or DELETE of an existing resource by a requester who is neither
\* its uploader nor an admin is answered 403 once the requester's user is
\* read and writes nothing, so that the resource stays as it is: a title or
\* an isActive is written only by the save of a request of the uploader or
\* of an admin; a requester who is the uploader or an admin is not refused;
\* and no step changes the uploadedBy of a resource.
C29_OnlyUploaderOrAdminChanges ==
  [][/\ started' # started
          => \A w \in Workers, u \in Users, r \in ResourceIds,
                op \in {"update", "softDelete"} :
               (ResourceFindById(w, op, u, r) /\ ResourceExists(r))
               => /\ UNCHANGED <<resources, ratings, response>>
                  /\ req'[w].op = op
                  /\ req'[w].pc = IF resources[r].uploadedBy = u
                                  THEN "saveResource" ELSE "findUser"
     /\ \A w \in Workers :
          /\ (req[w].pc = "findUser" /\ req'[w].pc # "findUser")
               => /\ UNCHANGED <<resources, ratings>>
                  /\ IF MayChange(req[w])
                     THEN req'[w].pc = "saveResource"
                     ELSE /\ req'[w] = Idle
                          /\ response'.op = req[w].op
                          /\ response'.status = 403
                          /\ response'.message = ResourceForbidden(req[w].op)
          /\ (req[w].op \in {"update", "softDelete"}
                /\ req[w].pc = "saveResource")
               => MayChange(req[w])
     /\ \A r \in 1..Len(resources) :
          /\ resources'[r].uploadedBy = resources[r].uploadedBy
          /\ (\/ resources'[r].title # resources[r].title
              \/ resources'[r].isActive # resources[r].isActive)
               => \E w \in Workers :
                    /\ req[w].pc = "saveResource"
                    /\ req[w].resourceId = r
                    /\ MayChange(req[w])]_vars

\* C29's case: a soft delete has been refused with 403 and the resource is
\* still active, while an admin's update of another user's resource is on
\* its way to save.
C29_RefusedAndAdminAdmitted ==
  /\ response.op = "softDelete"
  /\ response.status = 403
  /\ resources[1].isActive
  /\ \E w \in Workers :
       /\ req[w].op = "update"
       /\ req[w].pc = "saveResource"
       /\ req[w].userId # resources[1].uploadedBy
\* An api call that has been resolved or rejected
Settled(call) == call.pc \in {"resolved", "rejected"}

\* The requests an api call can still make
Remaining(call) ==
  IF Settled(call) THEN 0 ELSE 1 + (3 - call.sends - call.refreshes)

\* C30: an api call makes at most one token refresh and sends its request at
\* most twice; every step of it brings it nearer to being settled, and once
\* settled it does nothing more; a retried request answered 401 again is
\* rejected with no further refresh; a 401 with no refresh token stored ends
\* with token and user removed and the call rejected, and a failed refresh
\* ends with token, refreshToken and user removed and the call rejected.
C30_OneRefreshOneRetry ==
  [][\A i \in ApiCalls :
       LET call == client.calls[i]
           next == client'.calls[i]
           items == client'.localStorage
       IN /\ next.refreshes <= 1
          /\ next.sends <= 2
          /\ next # call => Remaining(next) < Remaining(call)
          /\ (call.pc = "sent" /\ call.retry /\ next # call
                /\ next.status = 401)
               => /\ next.pc = "rejected"
                  /\ next.refreshes = call.refreshes
                  /\ items = IF call.kind = "getMe" THEN LoggedOut
                             ELSE client.localStorage
          /\ (call.pc = "sent" /\ ~call.retry /\ next # call
                /\ next.status = 401
                /\ client.localStorage.refreshToken = NoItem)
               => /\ next.pc = "rejected"
                  /\ next.refreshes = 0
                  /\ items.token = NoItem /\ items.user = NoItem
          /\ (call.pc = "refreshing" /\ next # call /\ next.pc # "sent")
               => /\ next.pc = "rejected"
                  /\ items = LoggedOut]_vars

\* C30's case: a call was answered 401, refreshed the token, was sent again
\* with the new token, answered 401 again and rejected.
C30_RetryRejected ==
  \E i \in ApiCalls :
    /\ client.calls[i].pc = "rejected"
    /\ client.calls[i].retry
    /\ client.calls[i].status = 401
    /\ client.calls[i].sends = 2
    /\ client.calls[i].refreshes = 1
    /\ client.calls[i].authorization = RefreshedToken

====
